---- MODULE Spec2Model ----
(***************************************************************************)
(* Model of the single-operation calculator (src/src/main.rs, gui.rs).     *)
(*                                                                         *)
(* calculate(input) is a pure function of a string.  A string is a         *)
(* sequence of characters; each character has a UTF-8 width, so that the   *)
(* byte offsets the code slices with can be told apart from the character  *)
(* indices the scan counts.  An f64 is modelled as a decimal floating      *)
(* point number m * 10^e with Prec significant digits and the f64 range    *)
(* (overflow to infinity above f64::MAX, flush to zero below the smallest  *)
(* subnormal), plus the infinities and NaN.                                *)
(***************************************************************************)
EXTENDS Integers, Sequences, FiniteSets, TLC

VARIABLES
    input,   \* the &str handed to calculate
    form,    \* how the caller built input (the format! arguments of a call)
    ret,     \* what calculate returned, NoRet before the call
    self_result,  \* CalculatorApp.result
    self_error    \* CalculatorApp.error

vars == <<input, form, ret, self_result, self_error>>

(***************************************************************************)
(* Characters.                                                             *)
(***************************************************************************)
Tab == "\t"
Newline == "\n"
\* U+00E9 (e acute): two bytes in UTF-8, not white space.
EAcute == "U+00E9"
\* U+00A0 (no-break space): two bytes in UTF-8, White_Space.
Nbsp == "U+00A0"

Digits == {"0", "1", "2", "3", "4", "5", "6", "7", "8", "9"}

DigitVal(c) ==
    CASE c = "0" -> 0 [] c = "1" -> 1 [] c = "2" -> 2 [] c = "3" -> 3
      [] c = "4" -> 4 [] c = "5" -> 5 [] c = "6" -> 6 [] c = "7" -> 7
      [] c = "8" -> 8 [] c = "9" -> 9

\* char::len_utf8
Utf8Len(c) == IF c \in {EAcute, Nbsp} THEN 2 ELSE 1

\* char::is_whitespace, as str::trim uses it
IsWhitespace(c) == c \in {" ", Tab, Newline, Nbsp}

\* c.is_digit(10)
IsDigit(c) == c \in Digits

\* char::to_ascii_lowercase on the letters the float grammar reads
ToLower(c) ==
    CASE c = "I" -> "i" [] c = "N" -> "n" [] c = "F" -> "f" [] c = "A" -> "a"
      [] c = "T" -> "t" [] c = "Y" -> "y" [] c = "E" -> "e" [] OTHER -> c

(***************************************************************************)
(* Strings: byte offsets, slices, trim.                                    *)
(***************************************************************************)
RECURSIVE ByteLen(_)
ByteLen(s) == IF s = <<>> THEN 0 ELSE Utf8Len(Head(s)) + ByteLen(Tail(s))

\* byte offset at which the character after the first j characters starts
ByteOff(s, j) == ByteLen(SubSeq(s, 1, j))

\* str::is_char_boundary
IsCharBoundary(s, p) == \E j \in 0..Len(s) : ByteOff(s, j) = p

CharsBefore(s, p) == CHOOSE j \in 0..Len(s) : ByteOff(s, j) = p

\* &s[from..to] does not panic
SliceOk(s, from, to) ==
    /\ from <= to
    /\ to <= ByteLen(s)
    /\ IsCharBoundary(s, from)
    /\ IsCharBoundary(s, to)

\* &s[from..to], byte offsets
ByteSlice(s, from, to) == SubSeq(s, CharsBefore(s, from) + 1, CharsBefore(s, to))

RECURSIVE TrimStart(_)
TrimStart(s) ==
    IF s # <<>> /\ IsWhitespace(Head(s)) THEN TrimStart(Tail(s)) ELSE s

RECURSIVE TrimEnd(_)
TrimEnd(s) ==
    IF s # <<>> /\ IsWhitespace(s[Len(s)]) THEN TrimEnd(SubSeq(s, 1, Len(s) - 1)) ELSE s

\* str::trim
Trim(s) == TrimEnd(TrimStart(s))

(***************************************************************************)
(* f64 as a decimal floating point number.                                 *)
(***************************************************************************)
\* significant decimal digits kept by a rounding (f64: 53 bits)
Prec == 4

Pow10(n) == 10 ^ n

Abs(n) == IF n < 0 THEN -n ELSE n

NumDigits(a) == CHOOSE n \in 1..10 : Pow10(n - 1) <= a /\ (n = 10 \/ a < Pow10(n))

TrailingZeros(a) ==
    CHOOSE k \in 0..9 : a % Pow10(k) = 0 /\ (k = 9 \/ a % Pow10(k + 1) # 0)

Fin(m, e) == [k |-> "fin", m |-> m, e |-> e]
Inf(neg) == [k |-> "inf", neg |-> neg]
NaN == [k |-> "nan"]
Zero == Fin(0, 0)

is_infinite(x) == x.k = "inf"
is_nan(x) == x.k = "nan"
IsFinite(x) == x.k = "fin"

\* position of the leading digit: 10^(Mag-1) <= |x| < 10^Mag
Mag(x) == x.e + NumDigits(Abs(x.m))

\* -1, 0, 1 as |x| <, =, > |y|, for finite x, y
CmpAbs(x, y) ==
    IF x.m = 0 \/ y.m = 0
    THEN (IF x.m = 0 /\ y.m = 0 THEN 0 ELSE IF x.m = 0 THEN -1 ELSE 1)
    ELSE IF Mag(x) # Mag(y) THEN (IF Mag(x) < Mag(y) THEN -1 ELSE 1)
    ELSE LET c == IF x.e < y.e THEN x.e ELSE y.e
             a == Abs(x.m) * Pow10(x.e - c)
             b == Abs(y.m) * Pow10(y.e - c)
         IN IF a < b THEN -1 ELSE IF a = b THEN 0 ELSE 1

\* f64::MAX = 1.7976931348623157e308, to Prec digits
F64_MAX == Fin(1797, 305)
\* half of the smallest subnormal 5e-324: what is smaller rounds to zero
F64_TINY == Fin(247, -326)
\* f64::EPSILON = 2.220446049250313e-16, to Prec digits
F64_EPSILON == Fin(222, -18)

\* the value m * 10^e rounded to Prec digits and to the f64 range
Round(m, e) ==
    IF m = 0 THEN Zero
    ELSE LET a == Abs(m)
             nd == NumDigits(a)
             k == IF nd > Prec THEN nd - Prec ELSE 0
             q == IF k = 0 THEN a ELSE (a + (Pow10(k) \div 2)) \div Pow10(k)
             z == TrailingZeros(q)
             v == Fin((IF m < 0 THEN -1 ELSE 1) * (q \div Pow10(z)), e + k + z)
         IN IF CmpAbs(v, F64_MAX) = 1 THEN Inf(m < 0)
            ELSE IF CmpAbs(v, F64_TINY) = -1 THEN Zero
            ELSE v

\* num1 + num2 on finite operands
FAdd(x, y) ==
    IF x.m = 0 THEN y
    ELSE IF y.m = 0 THEN x
    ELSE IF Mag(x) - Mag(y) > Prec + 1 THEN x
    ELSE IF Mag(y) - Mag(x) > Prec + 1 THEN y
    ELSE LET c == IF x.e < y.e THEN x.e ELSE y.e
         IN Round(x.m * Pow10(x.e - c) + y.m * Pow10(y.e - c), c)

FNeg(x) == Fin(-x.m, x.e)

\* num1 - num2
FSub(x, y) == FAdd(x, FNeg(y))

\* num1 * num2
FMul(x, y) == Round(x.m * y.m, x.e + y.e)

\* num1 / num2, num2 # 0
FDiv(x, y) ==
    IF x.m = 0 THEN Zero
    ELSE LET up == Prec - NumDigits(Abs(x.m))
             n == Abs(x.m) * Pow10(up) * Pow10(Prec)
             q == n \div Abs(y.m)
             s == IF (x.m < 0) = (y.m < 0) THEN 1 ELSE -1
         IN Round(s * q, x.e - up - Prec - y.e)

FAbs(x) == Fin(Abs(x.m), x.e)

\* x < y on finite values
FLt(x, y) ==
    IF x.m < 0 /\ y.m >= 0 THEN TRUE
    ELSE IF x.m >= 0 /\ y.m < 0 THEN FALSE
    ELSE IF x.m >= 0 THEN CmpAbs(x, y) = -1
    ELSE CmpAbs(x, y) = 1

(***************************************************************************)
(* str::parse::<f64>: [+-]? (digits [. digits?] | . digits) ([eE] [+-]?    *)
(* digits)?, or inf / infinity / nan in any case.  An out-of-range literal *)
(* parses to an infinity or to zero.                                       *)
(***************************************************************************)
ParseOk(v) == [ok |-> TRUE, val |-> v]
ParseErr == [ok |-> FALSE]

AllDigits(s) == \A i \in 1..Len(s) : IsDigit(s[i])

RECURSIVE DigitsVal(_)
DigitsVal(s) ==
    IF s = <<>> THEN 0
    ELSE DigitsVal(SubSeq(s, 1, Len(s) - 1)) * 10 + DigitVal(s[Len(s)])

\* index of the first character of s in set S, 0 when there is none
FirstIn(s, S) ==
    IF \E i \in 1..Len(s) : s[i] \in S
    THEN CHOOSE i \in 1..Len(s) : s[i] \in S /\ \A j \in 1..(i - 1) : s[j] \notin S
    ELSE 0

Lower(s) == [i \in 1..Len(s) |-> ToLower(s[i])]

parse_number(neg, body) ==
    LET ePos == FirstIn(body, {"e", "E"})
        mant == IF ePos = 0 THEN body ELSE SubSeq(body, 1, ePos - 1)
        expo == IF ePos = 0 THEN <<>> ELSE SubSeq(body, ePos + 1, Len(body))
        dot == FirstIn(mant, {"."})
        ip == IF dot = 0 THEN mant ELSE SubSeq(mant, 1, dot - 1)
        fp == IF dot = 0 THEN <<>> ELSE SubSeq(mant, dot + 1, Len(mant))
        eSigned == expo # <<>> /\ expo[1] \in {"+", "-"}
        eNeg == eSigned /\ expo[1] = "-"
        ed == IF eSigned THEN Tail(expo) ELSE expo
        mantOk == AllDigits(ip) /\ AllDigits(fp) /\ Len(ip) + Len(fp) > 0
        expOk == ePos = 0 \/ (ed # <<>> /\ AllDigits(ed))
    IN IF mantOk /\ expOk
       THEN LET m == DigitsVal(ip \o fp)
                x == IF ePos = 0 THEN 0 ELSE (IF eNeg THEN -DigitsVal(ed) ELSE DigitsVal(ed))
            IN ParseOk(Round(IF neg THEN -m ELSE m, x - Len(fp)))
       ELSE ParseErr

ParseF64(s) ==
    LET signed == s # <<>> /\ s[1] \in {"+", "-"}
        neg == signed /\ s[1] = "-"
        body == IF signed THEN Tail(s) ELSE s
        low == Lower(body)
    IN IF low \in {<<"i", "n", "f">>, <<"i", "n", "f", "i", "n", "i", "t", "y">>}
       THEN ParseOk(Inf(neg))
       ELSE IF low = <<"n", "a", "n">> THEN ParseOk(NaN)
       ELSE parse_number(neg, body)

(***************************************************************************)
(* calculate (main.rs 5-92).                                               *)
(***************************************************************************)
Ok(v) == [kind |-> "Ok", val |-> v]
Err(msg) == [kind |-> "Err", msg |-> msg]
\* a slice at a byte offset that is no character boundary panics
Panic == [kind |-> "Panic"]
NoRet == [kind |-> "None"]

EmptyInput == "Empty input"
NoOperator == "No operator found"
InvalidFirst == "Invalid first number"
InvalidSecond == "Invalid second number"
FirstOutOfRange == "First number is too large or too small"
SecondOutOfRange == "Second number is too large or too small"
NotANumber == "NaN is not a valid number"
DivisionByZeroIndeterminate == "Division by zero"
ResultOverflowPositive == "Result is too large (infinity)"
ResultOverflowNegative == "Result is too small (negative infinity)"
ResultOutOfRange == "Result is too large or too small"
InvalidOperator == "Invalid operator"

Operators == {"+", "-", "*", "/"}

\* operator_pos = None
None == -1

\* let start_pos = if input.starts_with('-') { 1 } else { 0 };
start_pos(inp) == IF inp # <<>> /\ Head(inp) = "-" THEN 1 ELSE 0

\* scan with the in_scientific test dropped from the operator branch
RECURSIVE scan_no_exponent(_, _, _)
scan_no_exponent(cs, i, in_scientific) ==
    IF i >= Len(cs) THEN None
    ELSE IF cs[i + 1] \in Operators THEN i
    ELSE scan_no_exponent(cs, i + 1, in_scientific)

\* the for loop over input[start_pos..].chars().enumerate(): cs are the
\* characters of the slice, i the enumeration index; the value is i at the
\* break, None when the loop runs off the end
RECURSIVE scan(_, _, _)
scan(cs, i, in_scientific) ==
    IF i >= Len(cs) THEN None
    ELSE LET c == cs[i + 1]
         IN IF c = "e" \/ c = "E" THEN scan(cs, i + 1, TRUE)
            ELSE IF c \in Operators /\ ~in_scientific THEN i
            ELSE IF ~IsDigit(c) /\ c # "." /\ c # "e" /\ c # "E" /\ c # "+" /\ c # "-"
                 THEN scan(cs, i + 1, FALSE)
                 ELSE scan(cs, i + 1, in_scientific)

\* operator_pos after the loop: Some(i + start_pos) or None
find_operator(inp) ==
    LET sp == start_pos(inp)
        i == scan(ByteSlice(inp, sp, ByteLen(inp)), 0, FALSE)
    IN IF i = None THEN None ELSE i + sp

\* the three slices at pos (main.rs 28-30) are taken without a panic
split_ok(inp, pos) ==
    /\ SliceOk(inp, pos, pos + 1)
    /\ SliceOk(inp, 0, pos)
    /\ SliceOk(inp, pos + 1, ByteLen(inp))

\* clamp with the snap to 1e-14 left out
clamp_off(result) == Ok(result)

\* the precision clamp (main.rs 83-88)
clamp(result) ==
    IF FLt(FAbs(FSub(result, Fin(1, -14))), F64_EPSILON)
    THEN Ok(Fin(1, -14))
    ELSE Ok(result)

\* finish with the is_infinite check left out
finish_unchecked(result) ==
    IF is_infinite(result) THEN Ok(result) ELSE clamp(result)

\* the overflow check and the clamp on the computed result (main.rs 78-88)
finish(result) ==
    IF is_infinite(result) THEN Err(ResultOutOfRange) ELSE clamp(result)

\* divide with the zero dividend classified as a positive one
divide_unsigned(num1, num2) ==
    IF num2.m = 0
    THEN IF num1.m >= 0 THEN Err(ResultOverflowPositive)
         ELSE Err(ResultOverflowNegative)
    ELSE finish(FDiv(num1, num2))

\* the division arm (main.rs 63-74)
divide(num1, num2) ==
    IF num2.m = 0
    THEN IF num1.m = 0 THEN Err(DivisionByZeroIndeterminate)
         ELSE IF num1.m > 0 THEN Err(ResultOverflowPositive)
         ELSE Err(ResultOverflowNegative)
    ELSE finish(FDiv(num1, num2))

\* compute with the operands of the subtraction exchanged
compute_swapped(operator, num1, num2) ==
    IF operator = <<"+">> THEN finish(FAdd(num1, num2))
    ELSE IF operator = <<"-">> THEN finish(FSub(num2, num1))
    ELSE IF operator = <<"*">> THEN finish(FMul(num1, num2))
    ELSE IF operator = <<"/">> THEN divide(num1, num2)
    ELSE Err(InvalidOperator)

\* match operator { ... } and what follows it (main.rs 59-88)
compute(operator, num1, num2) ==
    IF operator = <<"+">> THEN finish(FAdd(num1, num2))
    ELSE IF operator = <<"-">> THEN finish(FSub(num1, num2))
    ELSE IF operator = <<"*">> THEN finish(FMul(num1, num2))
    ELSE IF operator = <<"/">> THEN divide(num1, num2)
    ELSE Err(InvalidOperator)

\* evaluate_at with an unparsable second operand read as 0.0
evaluate_at_lenient(inp, pos) ==
    IF ~split_ok(inp, pos) THEN Panic
    ELSE LET operator == ByteSlice(inp, pos, pos + 1)
             p1 == ParseF64(Trim(ByteSlice(inp, 0, pos)))
             p2 == ParseF64(Trim(ByteSlice(inp, pos + 1, ByteLen(inp))))
             num2 == IF p2.ok THEN p2.val ELSE Zero
         IN IF ~p1.ok THEN Err(InvalidFirst)
            ELSE IF is_infinite(p1.val) THEN Err(FirstOutOfRange)
            ELSE IF is_infinite(num2) THEN Err(SecondOutOfRange)
            ELSE IF is_nan(p1.val) \/ is_nan(num2) THEN Err(NotANumber)
            ELSE compute(operator, p1.val, num2)

\* the Some(pos) branch (main.rs 27-88)
evaluate_at(inp, pos) ==
    IF ~split_ok(inp, pos) THEN Panic
    ELSE LET operator == ByteSlice(inp, pos, pos + 1)
             num1_str == Trim(ByteSlice(inp, 0, pos))
             num2_str == Trim(ByteSlice(inp, pos + 1, ByteLen(inp)))
             p1 == ParseF64(num1_str)
             p2 == ParseF64(num2_str)
         IN IF ~p1.ok THEN Err(InvalidFirst)
            ELSE IF is_infinite(p1.val) THEN Err(FirstOutOfRange)
            ELSE IF ~p2.ok THEN Err(InvalidSecond)
            ELSE IF is_infinite(p2.val) THEN Err(SecondOutOfRange)
            ELSE IF is_nan(p1.val) \/ is_nan(p2.val) THEN Err(NotANumber)
            ELSE compute(operator, p1.val, p2.val)

calculate(raw) ==
    LET inp == Trim(raw)
    IN IF inp = <<>> THEN Err(EmptyInput)
       ELSE LET operator_pos == find_operator(inp)
            IN IF operator_pos = None THEN Err(NoOperator)
               ELSE evaluate_at(inp, operator_pos)

(***************************************************************************)
(* The callers.  A call passes a string built from two or three operand    *)
(* literals, operators and white space (the tests' string literals and     *)
(* format! calls), or any text typed into the input field.                 *)
(***************************************************************************)
\* longest raw text
MaxLen == 5
\* longest run of white space around an operand
MaxWs == 1

\* characters of the raw texts
Alphabet == {"5", ".", "e", "+", "-", "*", " ", "%", EAcute, Nbsp}

RawInputs == UNION {[1..n -> Alphabet] : n \in 0..MaxLen}

\* operand literals of the arithmetic calls
NumLits ==
    { <<"0">>, <<"5">>, <<"3">>, <<"2">>, <<"-", "5">>, <<"+", "5">>,
      <<"0", ".", "5">>,
      <<"0", ".", "0">>,
      <<"1", "e", "3">>, <<"-", "2", "e", "3">>, <<"1", "e", "-", "3">>,
      <<"1", ".", "5", "E", "+", "3">>,
      <<"1", "e", "3", "0", "0">>, <<"-", "1", "e", "3", "0", "0">>,
      <<"1", ".", "7", "9", "7", "e", "3", "0", "8">>,
      <<"1", "e", "4", "0", "0">>, <<"1", "e", "-", "4", "0", "0">>,
      <<"1", "e", "-", "1", "4">>, <<"1", ".", "0", "1", "e", "-", "1", "4">>,
      <<"1", ".", "0", "3", "e", "-", "1", "4">>,
      <<"0", ".", "0", "0", "0", "0", "0", "0", "1">>,
      <<"n", "a", "n">>, <<"-", "i", "n", "f">>, <<"a", "b", "c">>,
      <<"5", ".", "5", ".", "5">>, <<>> }

\* operand literals of the calls that vary the white space
WsLits ==
    { <<"5">>, <<"-", "3">>, <<"+", "3">>, <<"0", ".", "5">>,
      <<"1", "e", "3">>, <<"2", "E", "-", "3">>, <<"-", "1", ".", "0", "e", "+", "0">>,
      <<"a", "b", "c">> }

\* operand literals of the calls with two operators
ChainLits ==
    { <<"5">>, <<"3">>, <<"-", "2">>, <<"1", "e", "3">>, <<"2", "e", "-", "3">>,
      <<"0">>, <<"2">> }

WsChars == {" ", Tab, Newline}

Run(c, n) == [i \in 1..n |-> c]

\* "a op b" as format!("{} {} {}", a, op, b), and "a<op>b"
ArithForms ==
    [kind : {"expr"}, a : NumLits, op : Operators, b : NumLits,
     w : {<<<<>>, <<" ">>, <<" ">>, <<>>>>, <<<<>>, <<>>, <<>>, <<>>>>}]

\* white space of one kind, 0..MaxWs characters in each of the four places
WsForms ==
    [kind : {"expr"}, a : WsLits, op : Operators, b : WsLits,
     w : UNION {[1..4 -> {Run(c, n) : n \in 0..MaxWs}] : c \in WsChars}]

\* "a op1 b op2 c", with or without the spaces
ChainForms ==
    [kind : {"chain"}, a : ChainLits, op : Operators, b : ChainLits,
     op2 : Operators, c : ChainLits, w : {<<>>, <<" ">>}]

RawForms == [kind : {"raw"}, text : RawInputs]

\* the string the caller passes
Render(f) ==
    IF f.kind = "raw" THEN f.text
    ELSE IF f.kind = "expr"
    THEN f.w[1] \o f.a \o f.w[2] \o <<f.op>> \o f.w[3] \o f.b \o f.w[4]
    ELSE f.a \o f.w \o <<f.op>> \o f.w \o f.b \o f.w \o <<f.op2>> \o f.w \o f.c

InitWith(forms) ==
    /\ form \in forms
    /\ input = Render(form)
    /\ ret = NoRet
    /\ self_result = <<>>
    /\ self_error = <<>>

\* a direct call calculate(input), as the tests make it
Calculate ==
    /\ ret = NoRet
    /\ ret' = calculate(input)
    /\ UNCHANGED <<input, form, self_result, self_error>>

Next == Calculate

InitRaw == InitWith(RawForms)
InitWs == InitWith(WsForms)
InitArith == InitWith(ArithForms)
InitChain == InitWith(ChainForms)
Init == InitWith(RawForms \cup WsForms \cup ArithForms \cup ChainForms)

SpecRaw == InitRaw /\ [][Next]_vars
SpecWs == InitWs /\ [][Next]_vars
SpecArith == InitArith /\ [][Next]_vars
SpecChain == InitChain /\ [][Next]_vars
Spec == Init /\ [][Next]_vars

(***************************************************************************)
(* The form (gui.rs).  A String of the app is a sequence of pieces whose   *)
(* concatenation is the text; it is empty exactly when the sequence is.    *)
(* The steps of update are taken one at a time in the order of the frame:  *)
(* the text edit, the Enter key, the buttons.                              *)
(***************************************************************************)
\* longest text in the input field
MaxInput == 3

\* characters typed into the input field
GuiKeys == {"5", "0", EAcute}

DigitChar(d) == CHOOSE c \in Digits : DigitVal(c) = d

RECURSIVE DigitsOf(_)
DigitsOf(n) ==
    IF n < 10 THEN <<DigitChar(n)>>
    ELSE DigitsOf(n \div 10) \o <<DigitChar(n % 10)>>

\* "{}" of an f64: plain decimal digits, never an exponent; the fraction
\* is left out when it is zero
Display(v) ==
    IF is_nan(v) THEN <<"N", "a", "N">>
    ELSE IF is_infinite(v)
    THEN (IF v.neg THEN <<"-">> ELSE <<>>) \o <<"i", "n", "f">>
    ELSE LET sign == IF v.m < 0 THEN <<"-">> ELSE <<>>
             ds == DigitsOf(Abs(v.m))
             n == Len(ds)
             k == 0 - v.e
         IN IF v.m = 0 THEN <<"0">>
            ELSE IF v.e >= 0 THEN sign \o ds \o Run("0", v.e)
            ELSE IF n > k
            THEN sign \o SubSeq(ds, 1, n - k) \o <<".">> \o SubSeq(ds, n - k + 1, n)
            ELSE sign \o <<"0", ".">> \o Run("0", k - n) \o ds

\* format!("Result: {}", result)
FormatResult(v) == <<"Result: ">> \o Display(v)
\* format!("Error: {}", err)
FormatError(msg) == <<"Error: ", msg>>

\* the process has not panicked
Running == ret # Panic

Did(what) == [kind |-> "gui", last |-> what]

\* CalculatorApp::default()
InitGui ==
    /\ input = <<>>
    /\ self_result = <<>>
    /\ self_error = <<>>
    /\ ret = NoRet
    /\ form = Did("start")

\* ui.text_edit_singleline(&mut self.input): a character is typed
TypeChar ==
    /\ Running
    /\ Len(input) < MaxInput
    /\ \E c \in GuiKeys : input' = Append(input, c)
    /\ form' = Did("edit")
    /\ UNCHANGED <<ret, self_result, self_error>>

\* ui.text_edit_singleline(&mut self.input): the last character is deleted
Backspace ==
    /\ Running
    /\ input # <<>>
    /\ input' = SubSeq(input, 1, Len(input) - 1)
    /\ form' = Did("edit")
    /\ UNCHANGED <<ret, self_result, self_error>>

\* one of the buttons "+", "-", "*", "/" is clicked
PushOperator ==
    /\ Running
    /\ Len(input) < MaxInput
    /\ \E c \in Operators : input' = Append(input, c)
    /\ form' = Did("push")
    /\ UNCHANGED <<ret, self_result, self_error>>

\* the button "Clear" is clicked
Clear ==
    /\ Running
    /\ input' = <<>>
    /\ self_result' = <<>>
    /\ self_error' = <<>>
    /\ form' = Did("clear")
    /\ UNCHANGED ret

\* CalculatorApp::calculate, on the Enter key or the button "Calculate";
\* a panic of calculate leaves the fields as they were and ends the process
CalculatorApp_calculate ==
    /\ Running
    /\ ret' = calculate(input)
    /\ self_result' = IF ret'.kind = "Ok" THEN FormatResult(ret'.val)
                 ELSE IF ret'.kind = "Err" THEN <<>>
                 ELSE self_result
    /\ self_error' = IF ret'.kind = "Ok" THEN <<>>
                ELSE IF ret'.kind = "Err" THEN FormatError(ret'.msg)
                ELSE self_error
    /\ form' = Did("calculate")
    /\ UNCHANGED input

NextGui ==
    \/ TypeChar
    \/ Backspace
    \/ PushOperator
    \/ Clear
    \/ CalculatorApp_calculate

SpecGui == InitGui /\ [][NextGui]_vars

(***************************************************************************)
(* The claims.                                                             *)
(***************************************************************************)
Called == ret # NoRet
IsExpr == form.kind = "expr"

\* the literal is a finite number
FiniteLit(l) == ParseF64(l).ok /\ IsFinite(ParseF64(l).val)
LitVal(l) == ParseF64(l).val

\* the literal has an exponent
HasExp(l) == \E i \in 1..Len(l) : l[i] \in {"e", "E"}

\* the IEEE-754 result of x op y, rounded as every f64 operation is
Apply(op, x, y) ==
    CASE op = "+" -> FAdd(x, y)
      [] op = "-" -> FSub(x, y)
      [] op = "*" -> FMul(x, y)
      [] op = "/" -> FDiv(x, y)

\* |r - 1e-14| < machine epsilon
NearClampPoint(r) == FLt(FAbs(FSub(r, Fin(1, -14))), F64_EPSILON)

\* the text is one that reaches the operation: the scan stops at the binary
\* operator when the first operand has no leading '+' (C6) and is followed
\* by white space or has no exponent (C3)
SplitAtOperator ==
    /\ IsExpr
    /\ form.a # <<>> => form.a[1] # "+"
    /\ form.w[2] # <<>> \/ ~HasExp(form.a)

\* both operands are finite numbers
Accepted ==
    /\ SplitAtOperator
    /\ FiniteLit(form.a)
    /\ FiniteLit(form.b)

\* both operands are finite numbers and the operation is no division by zero
Computable ==
    /\ Accepted
    /\ ~(form.op = "/" /\ LitVal(form.b).m = 0)

\* byte offset of the binary operator in the trimmed input of an ASCII call
OperatorOffset == Len(form.a) + Len(form.w[2])

\* C1: calculate returns Ok or Err for every input, multi-byte characters
\* included, and the operator position the scan finds is an offset at which
\* the input can be split into left operand, operator character and right
\* operand.
C1_Total ==
    Called =>
        /\ ret.kind \in {"Ok", "Err"}
        /\ LET inp == Trim(input)
               pos == find_operator(inp)
           IN pos # None => split_ok(inp, pos)

\* C2 as stated: for finite a, b and an operator (b # 0 for /),
\* calculate("a op b") is Ok of the IEEE-754 result of a op b, or the
\* result-out-of-range error when that result is infinite; no finite result
\* is replaced by another value.
C2_Exact ==
    (Called /\ Computable) =>
        LET r == Apply(form.op, LitVal(form.a), LitVal(form.b))
        IN ret = IF is_infinite(r) THEN Err(ResultOutOfRange) ELSE Ok(r)

\* C2 amended: for finite a, b and an operator (b # 0 for /),
\* calculate("a op b") is the result-out-of-range error when the IEEE-754
\* result r of a op b is infinite, Ok(1e-14) when r is within machine epsilon
\* of 1e-14, and Ok(r) otherwise.
C2_ExactOrClamped ==
    (Called /\ Computable) =>
        LET r == Apply(form.op, LitVal(form.a), LitVal(form.b))
        IN ret = IF is_infinite(r) THEN Err(ResultOutOfRange)
                 ELSE IF NearClampPoint(r) THEN Ok(Fin(1, -14))
                 ELSE Ok(r)

\* "5 / 2" has returned 2.5
C2_Witness ==
    /\ Called
    /\ IsExpr
    /\ form.a = <<"5">> /\ form.op = "/" /\ form.b = <<"2">>
    /\ ret = Ok(Fin(25, -1))

\* C3: for valid numeric literals a, b and an operator, the outcome is the
\* same with zero or more white space characters before a, between a and the
\* operator, between the operator and b, and after b as it is for "a<op>b".
C3_WhitespaceInsensitive ==
    (Called /\ IsExpr /\ FiniteLit(form.a) /\ FiniteLit(form.b)) =>
        ret = calculate(form.a \o <<form.op>> \o form.b)

\* C4: a sign right after an e or E is never the split position, and with
\* both operands in scientific notation the split is at the binary operator
\* between the two literals and the result is the operation applied to the
\* two parsed values.
C4_ScientificSplit ==
    (Called /\ IsExpr) =>
        LET inp == Trim(input)
            pos == find_operator(inp)
        IN /\ (pos # None /\ pos >= 1 /\ inp[pos + 1] \in {"+", "-"}) =>
                  inp[pos] \notin {"e", "E"}
           /\ (FiniteLit(form.a) /\ FiniteLit(form.b) /\ HasExp(form.a)
                 /\ HasExp(form.b)) =>
                  /\ pos = OperatorOffset
                  /\ ret = Ok(Apply(form.op, LitVal(form.a), LitVal(form.b)))

\* C5: a division by a zero divisor returns no number: "Division by zero"
\* for a zero dividend, "Result is too large (infinity)" for a positive one,
\* "Result is too small (negative infinity)" for a negative one.
C5_DivisionByZero ==
    (Called /\ Accepted /\ form.op = "/" /\ LitVal(form.b).m = 0) =>
        ret = Err(IF LitVal(form.a).m = 0 THEN DivisionByZeroIndeterminate
                  ELSE IF LitVal(form.a).m > 0 THEN ResultOverflowPositive
                  ELSE ResultOverflowNegative)

\* "-5/0" has returned the negative-infinity error
C5_Witness ==
    /\ Called
    /\ input = <<"-", "5", "/", "0">>
    /\ ret = Err(ResultOverflowNegative)

\* C6: with a sign + or - as the first character of the input, "s a op b" is
\* split at op, not at the sign, and evaluates to (s a) op b.
C6_LeadingSign ==
    (Called /\ IsExpr /\ FiniteLit(form.a) /\ FiniteLit(form.b)
        /\ form.a[1] \in {"+", "-"} /\ form.w[2] # <<>>) =>
        /\ find_operator(Trim(input)) = OperatorOffset
        /\ ret = Ok(Apply(form.op, LitVal(form.a), LitVal(form.b)))

\* C7: an input with three operands and two binary operators always fails
\* with an error and never returns a number.
C7_SingleOperation ==
    (Called /\ form.kind = "chain") => ret.kind = "Err"

\* "5 + 3 + 2" has been rejected for its second operand "3 + 2"
C7_Witness ==
    /\ Called
    /\ input = <<"5", " ", "+", " ", "3", " ", "+", " ", "2">>
    /\ ret = Err(InvalidSecond)

KeepsExponent == Digits \cup {".", "e", "E", "+", "-"}

\* character j of s (from 1) is an operator after the leading '-' and
\* outside an exponent context: no e or E before it is followed up to j only
\* by digits, '.', 'e', 'E', '+' and '-'
Qualifies(s, j) ==
    /\ j >= (IF s[1] = "-" THEN 2 ELSE 1)
    /\ s[j] \in Operators
    /\ ~\E k \in (IF s[1] = "-" THEN 2 ELSE 1)..(j - 1) :
           /\ s[k] \in {"e", "E"}
           /\ \A l \in (k + 1)..(j - 1) : s[l] \in KeepsExponent

C9_FiniteResults ==
    Called =>
        /\ ret.kind = "Ok" => IsFinite(ret.val)
        /\ (Computable
              /\ is_infinite(Apply(form.op, LitVal(form.a), LitVal(form.b)))) =>
               ret = Err(ResultOutOfRange)

\* "1e300 * 1e300" has returned the out-of-range error
C9_Witness ==
    /\ Called
    /\ IsExpr
    /\ form.a = <<"1", "e", "3", "0", "0">> /\ form.op = "*" /\ form.b = form.a
    /\ ret = Err(ResultOutOfRange)

\* C10: a finite computed result r within machine epsilon of 1e-14 is
\* returned as exactly 1e-14, every other finite result unchanged.
C10_PrecisionClamp ==
    (Called /\ Computable) =>
        LET r == Apply(form.op, LitVal(form.a), LitVal(form.b))
        IN IsFinite(r) =>
               /\ NearClampPoint(r) => ret = Ok(Fin(1, -14))
               /\ ~NearClampPoint(r) => ret = Ok(r)

\* "1.01e-14 + 0" has returned 1e-14
C10_Witness ==
    /\ Called
    /\ IsExpr
    /\ form.a = <<"1", ".", "0", "1", "e", "-", "1", "4">>
    /\ form.op = "+" /\ form.b = <<"0">>
    /\ ret = Ok(Fin(1, -14))

\* index (from 1) of the first qualifying operator of s, 0 when there is none
FirstOperator(s) ==
    IF \E j \in 1..Len(s) : Qualifies(s, j)
    THEN CHOOSE j \in 1..Len(s) :
             Qualifies(s, j) /\ \A i \in 1..(j - 1) : ~Qualifies(s, i)
    ELSE 0

NoFailure == "none"

\* the message of the first check of the claimed order that fails on the
\* text: empty input, no operator, first operand, second operand, NaN,
\* division by zero, infinite result; NoFailure when every check passes
FirstFailing(text) ==
    LET s == Trim(text)
        j == FirstOperator(s)
        p1 == ParseF64(Trim(SubSeq(s, 1, j - 1)))
        p2 == ParseF64(Trim(SubSeq(s, j + 1, Len(s))))
    IN IF s = <<>> THEN EmptyInput
       ELSE IF j = 0 THEN NoOperator
       ELSE IF ~p1.ok THEN InvalidFirst
       ELSE IF is_infinite(p1.val) THEN FirstOutOfRange
       ELSE IF ~p2.ok THEN InvalidSecond
       ELSE IF is_infinite(p2.val) THEN SecondOutOfRange
       ELSE IF is_nan(p1.val) \/ is_nan(p2.val) THEN NotANumber
       ELSE IF s[j] = "/" /\ p2.val.m = 0
            THEN (IF p1.val.m = 0 THEN DivisionByZeroIndeterminate
                  ELSE IF p1.val.m > 0 THEN ResultOverflowPositive
                  ELSE ResultOverflowNegative)
       ELSE IF is_infinite(Apply(s[j], p1.val, p2.val)) THEN ResultOutOfRange
       ELSE NoFailure

\* C11: the error is decided by the first failing check of the order empty
\* input, no operator, first operand unparsable or infinite, second operand
\* unparsable or infinite, NaN operand, division by zero, infinite result:
\* a text on which a check fails returns that check's message, and every
\* error returned is the message of the first failing check.
C11_CheckOrder ==
    Called =>
        /\ FirstFailing(input) # NoFailure => ret = Err(FirstFailing(input))
        /\ ret.kind = "Err" => ret.msg = FirstFailing(input)

\* the character the scan of inp matched at its break (main.rs 16-21)
matched(inp) ==
    ByteSlice(inp, start_pos(inp), ByteLen(inp))
        [find_operator(inp) - start_pos(inp) + 1]

\* C12: for every input the one-character substring taken at the split
\* position is the operator character the scan matched, one of + - * /,
\* and calculate never returns "Invalid operator".
C12_OperatorSubstring ==
    Called =>
        LET inp == Trim(input)
            pos == find_operator(inp)
        IN /\ ret # Err(InvalidOperator)
           /\ (inp # <<>> /\ pos # None /\ SliceOk(inp, pos, pos + 1)) =>
                  /\ ByteSlice(inp, pos, pos + 1) = <<matched(inp)>>
                  /\ matched(inp) \in Operators

\* the last step of the form was what
After(what) == form = Did(what)

\* C13: in the form the result text and the error text are never both
\* non-empty; right after Calculate/Enter exactly one of them is non-empty
\* and it is the formatted outcome of calculate on the input of that moment;
\* right after Clear the input, the result and the error are all empty.
C13_Presentation ==
    /\ ~(self_result # <<>> /\ self_error # <<>>)
    /\ After("calculate") =>
           /\ (self_result # <<>>) # (self_error # <<>>)
           /\ LET r == calculate(input)
              IN \/ r.kind = "Ok" /\ self_result = FormatResult(r.val)
                 \/ r.kind = "Err" /\ self_error = FormatError(r.msg)
    /\ After("clear") => input = <<>> /\ self_result = <<>> /\ self_error = <<>>

====
